---- MODULE Spec2Model ----
(***************************************************************************)
(* Model of DataCollection/lc_data.py: the synchronous main loop (main),   *)
(* the sensor synchronisation (CarlaSyncMode), the keyboard-to-flag layer  *)
(* (KeyboardControl) and the polyline follower                             *)
(* (get_displacement_in_polyline).                                         *)
(*                                                                         *)
(* Arithmetic.  World locations are integer points [x, y].  The local      *)
(* frame of a polyline is the world frame translated to loc1 and rotated   *)
(* by theta = atan2(loc2 - loc1).  The reference directions loc2 - loc1    *)
(* are taken with an integer length len, so cos(theta) = c/len and         *)
(* sin(theta) = s/len are rational and every local coordinate is an        *)
(* integer multiple of 1/len.  Local coordinates, distances and            *)
(* pl.distance are held in that unit (the real value times len).  A        *)
(* square root is the floor of the real root in that unit.  Quotients      *)
(* (the look-ahead point, gt_point, dy, steering) are kept as numerator    *)
(* and denominator, so that "is 0" is exact.                               *)
(***************************************************************************)
EXTENDS Integers, Sequences, FiniteSets, TLC

VARIABLES
    pc,                  \* position of the thread of control
    error,               \* exception that ended the run, "none" while running
    actor_list,          \* main: actor_list
    destroy_calls,       \* number of destroy() calls received by each actor
    obstacle,            \* main: obstacle ("None" or an actor)
    sync_mode,           \* CarlaSyncMode: frame, _queues; ticks, timeouts, items dropped by the last tick
    data,                \* what the last CarlaSyncMode.tick returned
    controller,          \* KeyboardControl: the flags
    polyline_controller, \* main: polyline_controller
    pl,                  \* main: pl (get_displacement_in_polyline) or NoPl
    lc_waypoints_count,  \* main: lc_waypoints_count
    control_values,      \* main: control_values ("unbound" until assigned)
    vehicle_control,     \* the control last applied to the vehicle
    csv,                 \* the CSV file: header, number of rows, last row
    images,              \* BufferedImageSaver: number of add_image calls, last one
    iter,                \* loop iterations started and completed, keys read, last key handled
    route,               \* the waypoints the map returned for the current polyline
    arcs                 \* arc lengths evaluated by the look-ahead loop of the last frame

vars == <<pc, error, actor_list, destroy_calls, obstacle, sync_mode, data,
          controller, polyline_controller, pl, lc_waypoints_count,
          control_values, vehicle_control, csv, images, iter, route, arcs>>

-----------------------------------------------------------------------------
(* Bounds of the model *)

\* waypoints appended after the three reference points (range(30) in main)
NumWps == 3
\* loop iterations of main that are explored
MaxFrames == 3
\* key presses read over a run
MaxKeys == 3
\* events in one pygame.event.get() batch
MaxEvents == 2
\* obstacles that can be spawned over a run
MaxObstacles == 1
\* stale items a queue can hold when the synchronous context is entered
MaxStale == 1

(* Program constants *)

\* __init__ prints locs_list[0..5]: the list needs at least 6 points
MinLocs == 6
\* distance=1 passed by main to get_displacement_in_polyline
MainDistance == 1
\* distance=5, the default of get_displacement_in_polyline.__init__
DefaultDistance == 5
\* steering = - dy * 0.02, as the fraction SteerGainNum / SteerGainDen
SteerGainNum == 2
SteerGainDen == 100
\* CarlaSyncMode registers world.on_tick and the two cameras
NumQueues == 3

-----------------------------------------------------------------------------
(* Locations and the local frame *)

Loc(a, b) == [x |-> a, y |-> b]

\* carla.Location.__sub__
LocSub(a, b) == [x |-> a.x - b.x, y |-> a.y - b.y]

LocAdd(a, b) == [x |-> a.x + b.x, y |-> a.y + b.y]

LocMul(k, a) == [x |-> k * a.x, y |-> k * a.y]

\* Python list indexing from 0; the caller checks the bound
At(list, i) == list[i + 1]

RECURSIVE SqrtSearch(_, _, _)
SqrtSearch(n, lo, hi) ==
    IF lo >= hi THEN lo
    ELSE LET mid == (lo + hi + 1) \div 2
         IN  IF mid * mid <= n THEN SqrtSearch(n, mid, hi)
                               ELSE SqrtSearch(n, lo, mid - 1)

\* np.sqrt on a non-negative number: the floor of the root (46340 is the
\* largest root of a 32-bit integer)
Sqrt(n) == SqrtSearch(n, 0, IF n < 46340 THEN n ELSE 46340)

\* get_displacement_in_polyline.translate
translate(loc, init_loc) == LocSub(loc, init_loc)

\* math.atan2(lc_loc2.y, lc_loc2.x) as the direction (c, s)/len
Atan2(lc_loc2) ==
    [c |-> lc_loc2.x, s |-> lc_loc2.y,
     len |-> Sqrt(lc_loc2.x * lc_loc2.x + lc_loc2.y * lc_loc2.y)]

\* only theta > 0.0 is rotated
ThetaPositiveOnly(theta) == theta.s > 0 \/ (theta.s = 0 /\ theta.c < 0)

\* self.theta > 0.0 or self.theta < -0.0
ThetaNonZero(theta) == ~(theta.s = 0 /\ theta.c >= 0)

\* get_displacement_in_polyline.transform, in units of 1/theta.len
transform(initial_position, theta, loc) ==
    LET local_loc == LocSub(loc, initial_position)
    IN  IF ThetaNonZero(theta)
        THEN [x |-> local_loc.x * theta.c + local_loc.y * theta.s,
              y |-> - local_loc.x * theta.s + local_loc.y * theta.c]
        ELSE [x |-> local_loc.x * theta.len, y |-> local_loc.y * theta.len]

\* get_displacement_in_polyline.compute_distance
compute_distance(loc1, loc2) ==
    LET vector == LocSub(loc1, loc2)
    IN  Sqrt(vector.x * vector.x + vector.y * vector.y)

RECURSIVE SumSegments(_, _, _)
\* for pt_idx in range(from, to): d += compute_distance(locs[pt_idx], locs[pt_idx+1])
SumSegments(locs_list, from, to) ==
    IF from >= to THEN 0
    ELSE compute_distance(At(locs_list, from), At(locs_list, from + 1))
         + SumSegments(locs_list, from + 1, to)

\* compute_polyline_distance raises IndexError on these pointers
PolylineDistanceRaises(locs_list, cr_pt, nxt_pt) ==
    IF cr_pt + 1 = nxt_pt
    THEN nxt_pt >= Len(locs_list)
    ELSE cr_pt + 1 >= Len(locs_list)
         \/ (cr_pt + 1 < nxt_pt /\ nxt_pt >= Len(locs_list))

\* the straight distance to the next point instead of the arc
StraightDistance(locs_list, loc, cr_pt, nxt_pt) ==
    compute_distance(loc, At(locs_list, nxt_pt))

\* get_displacement_in_polyline.compute_polyline_distance
compute_polyline_distance(locs_list, loc, cr_pt, nxt_pt) ==
    IF cr_pt + 1 = nxt_pt
    THEN compute_distance(loc, At(locs_list, nxt_pt))
    ELSE compute_distance(loc, At(locs_list, cr_pt + 1))
         + SumSegments(locs_list, cr_pt + 1, nxt_pt)

\* get_displacement_in_polyline.find_x_image_on_line: (x, y) with y = ynum/yden;
\* the caller checks crossed_loc.x # next_loc.x (ZeroDivisionError otherwise)
find_x_image_on_line(crossed_loc, next_loc, cu_loc) ==
    [x |-> cu_loc.x,
     ynum |-> (crossed_loc.y - next_loc.y) * cu_loc.x
              + (crossed_loc.x * next_loc.y - next_loc.x * crossed_loc.y),
     yden |-> crossed_loc.x - next_loc.x]

\* get_displacement_in_polyline.find_point_on_line: v - distance * n/|n|,
\* the point (xnum/den, ynum/den); den = 0 is numpy's nan
find_point_on_line(initial_loc, terminal_loc, distance) ==
    LET n    == LocSub(initial_loc, terminal_loc)
        norm == Sqrt(n.x * n.x + n.y * n.y)
    IN  [xnum |-> initial_loc.x * norm - distance * n.x,
         ynum |-> initial_loc.y * norm - distance * n.y,
         den  |-> norm]

-----------------------------------------------------------------------------
(* get_displacement_in_polyline: construction and the per-frame step *)

NoPl == [locs_list |-> <<>>]

RECURSIVE TransformAll(_, _, _)
\* for i in range(len(wps)): self.locs_list.append(self.transform(wps[i]...))
TransformAll(initial_position, theta, wps) ==
    IF wps = <<>> THEN <<>>
    ELSE <<transform(initial_position, theta, Head(wps))>>
         \o TransformAll(initial_position, theta, Tail(wps))

\* get_displacement_in_polyline.__init__ up to the prints
PlBuild(loc1, loc2, loc3, wps, distance) ==
    LET theta == Atan2(translate(loc2, loc1))
    IN  [initial_position |-> loc1,
         theta            |-> theta,
         distance         |-> distance,
         locs_list        |-> <<transform(loc1, theta, loc1),
                                transform(loc1, theta, loc2),
                                transform(loc1, theta, loc3)>>
                              \o TransformAll(loc1, theta, wps),
         nxt_pointer      |-> 1,
         crossed_pointer  |-> 0]

\* print(self.locs_list[3].x, ...) ... print(self.locs_list[5].x, ...) raise
\* IndexError on a list shorter than 6
PlInitRaises(wps) == 3 + Len(wps) < MinLocs

\* pl.distance in the unit of the local frame
PlDistance(p) == p.distance * p.theta.len

\* lines 593-594: the crossed pointer moves by the x threshold alone
CrossedRaises(p) == p.crossed_pointer + 1 >= Len(p.locs_list)

CrossedUpdate(p, cu) ==
    IF cu.x >= At(p.locs_list, p.crossed_pointer + 1).x
    THEN p.crossed_pointer + 1
    ELSE p.crossed_pointer

\* the loop ends the lane change at the first point within pl.distance,
\* without the test on the last pointer
LookAheadFirst(p, cu, cr, nxt, d1, count, seen) ==
    IF PolylineDistanceRaises(p.locs_list, cr, nxt)
    THEN [err |-> "IndexError", nxt_pointer |-> nxt, d1 |-> d1,
          finished |-> FALSE, arcs |-> seen]
    ELSE LET d == compute_polyline_distance(p.locs_list, cu, cr, nxt)
         IN  [err |-> "none", nxt_pointer |-> nxt,
              d1 |-> IF d <= PlDistance(p) THEN d ELSE d1,
              finished |-> d <= PlDistance(p), arcs |-> Append(seen, d)]

RECURSIVE LookAheadPast(_, _, _, _, _, _, _)
\* the loop advances nxt_pointer without the test on the last pointer
LookAheadPast(p, cu, cr, nxt, d1, count, seen) ==
    IF PolylineDistanceRaises(p.locs_list, cr, nxt)
    THEN [err |-> "IndexError", nxt_pointer |-> nxt, d1 |-> d1,
          finished |-> FALSE, arcs |-> seen]
    ELSE LET d == compute_polyline_distance(p.locs_list, cu, cr, nxt)
         IN  IF d <= PlDistance(p)
             THEN LookAheadPast(p, cu, cr, nxt + 1, d, count, Append(seen, d))
             ELSE [err |-> "none", nxt_pointer |-> nxt, d1 |-> d1,
                   finished |-> FALSE, arcs |-> Append(seen, d)]

RECURSIVE LookAhead(_, _, _, _, _, _, _)
\* lines 596-610: the while loop over nxt_pointer; finished is
\* "polyline_controller = False; break"
LookAhead(p, cu, cr, nxt, d1, count, seen) ==
    IF PolylineDistanceRaises(p.locs_list, cr, nxt)
    THEN [err |-> "IndexError", nxt_pointer |-> nxt, d1 |-> d1,
          finished |-> FALSE, arcs |-> seen]
    ELSE LET d == compute_polyline_distance(p.locs_list, cu, cr, nxt)
         IN  IF d <= PlDistance(p)
             THEN IF nxt # count - 1
                  THEN LookAhead(p, cu, cr, nxt + 1, d, count, Append(seen, d))
                  ELSE [err |-> "none", nxt_pointer |-> nxt, d1 |-> d,
                        finished |-> TRUE, arcs |-> Append(seen, d)]
             ELSE [err |-> "none", nxt_pointer |-> nxt, d1 |-> d1,
                   finished |-> FALSE, arcs |-> Append(seen, d)]

NoPoint == [xnum |-> 0, ynum |-> 0, den |-> 1]
NoGt == [x |-> 0, ynum |-> 0, yden |-> 1]

\* lines 618-625: the look-ahead target point
TargetPoint(p, cu, nxt, d1) ==
    IF d1 = 0
    THEN find_point_on_line(cu, At(p.locs_list, nxt), PlDistance(p))
    ELSE find_point_on_line(At(p.locs_list, nxt - 1), At(p.locs_list, nxt),
                            PlDistance(p) - d1)

\* the difference taken with the wrong sign on the point
DySum(cu, point) == [num |-> cu.y * point.den + point.ynum, den |-> point.den]

\* line 627: dy = local_cu_loc.y - point[1], as num/den
Dy(cu, point) == [num |-> cu.y * point.den - point.ynum, den |-> point.den]

\* line 629: steering = - dy * 0.02, as num/den
Steering(dy) == [num |-> - SteerGainNum * dy.num, den |-> SteerGainDen * dy.den]

\* lines 583-629 for the tracked point front (the midpoint of the two front
\* bottom vertices of the bounding box, in world coordinates)
PolyStep(p, front, count) ==
    LET cu == transform(p.initial_position, p.theta, front)
    IN  IF CrossedRaises(p)
        THEN [err |-> "IndexError", crossed_pointer |-> p.crossed_pointer,
              nxt_pointer |-> p.nxt_pointer, finished |-> FALSE, d1 |-> 0,
              arcs |-> <<>>, cu |-> cu, gt |-> NoGt, point |-> NoPoint,
              dy |-> [num |-> 0, den |-> 1], steering |-> [num |-> 0, den |-> 1]]
        ELSE
        LET cr == CrossedUpdate(p, cu)
            la == LookAhead(p, cu, cr, p.nxt_pointer, 0, count, <<>>)
            zd == la.err = "none"
                  /\ At(p.locs_list, cr).x = At(p.locs_list, cr + 1).x
            ok == la.err = "none" /\ ~zd
            point == IF ok THEN TargetPoint(p, cu, la.nxt_pointer, la.d1)
                           ELSE NoPoint
            dy == Dy(cu, point)
        IN  [err |-> IF zd THEN "ZeroDivisionError" ELSE la.err,
             crossed_pointer |-> cr,
             nxt_pointer |-> la.nxt_pointer,
             finished |-> la.finished,
             d1 |-> la.d1,
             arcs |-> la.arcs,
             cu |-> cu,
             gt |-> IF ok THEN find_x_image_on_line(At(p.locs_list, cr),
                                                    At(p.locs_list, cr + 1), cu)
                          ELSE NoGt,
             point |-> point,
             dy |-> dy,
             steering |-> Steering(dy)]

-----------------------------------------------------------------------------
(* The map: what the waypoint queries of a lane-change trigger return *)

\* loc1 (vehicle), loc2 (next(10) on the own lane), loc3 (next(15) on the
\* target lane) and the step between the next(1) waypoints after loc3
Shape(l1, l2, l3, st) == [loc1 |-> l1, loc2 |-> l2, loc3 |-> l3, step |-> st]

RouteShapes ==
    { Shape(Loc(0, 0),  Loc(10, 0),   Loc(10, 10),   Loc(0, 1)),
      Shape(Loc(0, 0),  Loc(10, 0),   Loc(24, -4),   Loc(1, 0)),
      Shape(Loc(0, 0),  Loc(10, 0),   Loc(20, 0),    Loc(1, 0)),
      Shape(Loc(2, -4), Loc(-8, -4),  Loc(-22, 0),   Loc(-1, 0)),
      Shape(Loc(0, 0),  Loc(0, 10),   Loc(-4, 24),   Loc(0, 1)),
      Shape(Loc(0, 0),  Loc(6, 8),    Loc(12, 16),   Loc(3, 4)),
      Shape(Loc(2, -4), Loc(-6, -10), Loc(-14, -16), Loc(-4, -3)),
      Shape(Loc(2, -4), Loc(-8, -4),  Loc(-18, -4),  Loc(-1, 0)),
      Shape(Loc(0, 0),  Loc(0, -10),  Loc(0, -20),   Loc(0, -1)) }

\* the shapes main is run on
MainShapes ==
    { Shape(Loc(0, 0),  Loc(10, 0),   Loc(24, -4),   Loc(1, 0)),
      Shape(Loc(2, -4), Loc(-8, -4),  Loc(-22, 0),   Loc(-1, 0)) }

NoRoute == [loc1 |-> Loc(0, 0), loc2 |-> Loc(0, 0), loc3 |-> Loc(0, 0), wps |-> <<>>]

\* the n waypoints list(tmp_wpt.next(1))[0] after loc3
Waypoints(shape, n) == [i \in 1..n |-> LocAdd(shape.loc3, LocMul(i, shape.step))]

Route(shape, n) ==
    [loc1 |-> shape.loc1, loc2 |-> shape.loc2, loc3 |-> shape.loc3,
     wps |-> Waypoints(shape, n)]

Midpoint(a, b) == [x |-> (a.x + b.x) \div 2, y |-> (a.y + b.y) \div 2]

\* positions of the tracked point of the vehicle that a frame can read: the
\* waypoints, the midpoints of the first two segments, and points off the line
VehLocs(r) ==
    {r.loc1, r.loc2, r.loc3}
    \cup {r.wps[i] : i \in 1..Len(r.wps)}
    \cup {Midpoint(r.loc1, r.loc2), Midpoint(r.loc2, r.loc3)}
    \cup {LocAdd(r.loc1, Loc(1, 1)), LocAdd(Midpoint(r.loc2, r.loc3), Loc(0, -1))}

\* positions of the tracked point read by the frames of main
MainLocs(r) == {r.loc1, r.loc2, Midpoint(r.loc2, r.loc3), r.wps[Len(r.wps) - 1]}

-----------------------------------------------------------------------------
(* Initial values shared by the specifications *)

NoRow == [crossed_pointer |-> -1, nxt_pointer |-> -1,
          cu_loc |-> Loc(0, 0), gt |-> NoGt, target_loc |-> NoPoint,
          dy |-> [num |-> 0, den |-> 1], steering |-> [num |-> 0, den |-> 1]]

\* fields of main (lines 400-401); a row is written with these keys
Fields == <<"crossed_pointer", "nxt_pointer", "cu_loc_x", "cu_loc_y", "gt_x", "gt_y",
            "target_loc_x", "target_loc_y", "dy", "steering">>

\* the row dictionary of lines 636-645
Row(step) ==
    [crossed_pointer |-> step.crossed_pointer, nxt_pointer |-> step.nxt_pointer,
     cu_loc |-> step.cu, gt |-> step.gt, target_loc |-> step.point,
     dy |-> step.dy, steering |-> step.steering]

\* the keys of the row dictionary of lines 636-645
RowKeys == <<"crossed_pointer", "nxt_pointer", "cu_loc_x", "cu_loc_y", "gt_x", "gt_y",
             "target_loc_x", "target_loc_y", "dy", "steering">>

\* KeyboardControl.__init__
ControllerInit ==
    [autopilot_enabled |-> TRUE,
     left_lane_change_activated |-> 0,
     right_lane_change_activated |-> 0,
     lane_change_second_half |-> 0,
     start_data_collection |-> FALSE,
     force_left_lane_change |-> FALSE,
     force_right_lane_change |-> FALSE,
     spawn_static_object |-> FALSE,
     destroy_static_object |-> FALSE]

Vehicle == <<"vehicle", 0>>
CameraRgb == <<"camera_rgb", 0>>
CameraTopView == <<"camera_top_view", 0>>
Obstacle(i) == <<"obstacle", i>>
None == <<"None", 0>>

Actors == {Vehicle, CameraRgb, CameraTopView}
          \cup {Obstacle(i) : i \in 1..(MaxObstacles + 1)}

NoSteer == [num |-> 0, den |-> 1]

\* control_values before its first assignment
Unbound == [src |-> "unbound", steer |-> NoSteer, frame |-> 0]

NoImage == [control |-> Unbound, left |-> 0, right |-> 0, second_half |-> 0, frame |-> -1]

InitCommon ==
    /\ error = "none"
    /\ actor_list = <<>>
    /\ destroy_calls = [a \in Actors |-> 0]
    /\ obstacle = None
    /\ sync_mode = [frame |-> 0, queues |-> [q \in 1..NumQueues |-> <<>>],
                    ticks |-> 0, timeouts |-> 0, discarded |-> 0]
    /\ data = <<>>
    /\ controller = ControllerInit
    /\ polyline_controller = FALSE
    /\ pl = NoPl
    /\ lc_waypoints_count = 0
    /\ control_values = Unbound
    /\ vehicle_control = [src |-> "none", steer |-> NoSteer, frame |-> 0]
    /\ csv = [header |-> <<>>, rows |-> 0, keys |-> <<>>, row |-> NoRow]
    /\ images = [count |-> 0, last |-> NoImage]
    /\ iter = [started |-> 0, completed |-> 0, keys |-> 0, obstacles |-> 0,
             last_key |-> "none"]
    /\ route = NoRoute
    /\ arcs = <<>>

-----------------------------------------------------------------------------
(* The polyline follower on its own: construction from any reference points *)
(* and waypoints, then frames at any vehicle position                       *)

InitPl == InitCommon /\ pc = "pl_new"

\* get_displacement_in_polyline(loc1, loc2, loc3, wps, distance)
PlConstruct ==
    /\ pc = "pl_new"
    /\ \E shape \in RouteShapes, n \in 0..NumWps,
          distance \in {MainDistance, DefaultDistance} :
          /\ route' = Route(shape, n)
          /\ IF PlInitRaises(Waypoints(shape, n))
             THEN /\ error' = "IndexError"
                  /\ pc' = "pl_failed"
                  /\ UNCHANGED <<pl, lc_waypoints_count, polyline_controller>>
             ELSE /\ pl' = PlBuild(shape.loc1, shape.loc2, shape.loc3,
                                   Waypoints(shape, n), distance)
                  /\ lc_waypoints_count' = 3 + n
                  /\ polyline_controller' = TRUE
                  /\ pc' = "pl_frame"
                  /\ error' = error
    /\ UNCHANGED <<actor_list, destroy_calls, obstacle, sync_mode, data, controller,
                   control_values, vehicle_control, csv, images, iter, arcs>>

\* lines 583-629 and 636-646 for one vehicle position
PlFrame ==
    /\ pc = "pl_frame"
    /\ polyline_controller
    /\ \E front \in VehLocs(route) :
          LET step == PolyStep(pl, front, lc_waypoints_count)
          IN  /\ pl' = [pl EXCEPT !.crossed_pointer = step.crossed_pointer,
                                  !.nxt_pointer = step.nxt_pointer]
              /\ arcs' = step.arcs
              /\ polyline_controller' = ~step.finished
              /\ IF step.err # "none"
                 THEN /\ error' = step.err
                      /\ pc' = "pl_failed"
                      /\ csv' = csv
                 ELSE /\ csv' = [csv EXCEPT !.rows = 1, !.keys = RowKeys,
                                            !.row = Row(step)]
                      /\ UNCHANGED <<error, pc>>
    /\ UNCHANGED <<actor_list, destroy_calls, obstacle, sync_mode, data, controller,
                   lc_waypoints_count, control_values, vehicle_control, images,
                   iter, route>>

NextPl == PlConstruct \/ PlFrame

SpecPl == InitPl /\ [][NextPl]_vars

-----------------------------------------------------------------------------
(* CarlaSyncMode *)

\* the first item of the queue is returned whatever its frame
RetrieveFirst(queue, frame, dropped) ==
    IF queue = <<>>
    THEN [empty |-> TRUE, item |-> -1, rest |-> <<>>, dropped |-> dropped]
    ELSE [empty |-> FALSE, item |-> Head(queue), rest |-> Tail(queue),
          dropped |-> dropped]

RECURSIVE _retrieve_data(_, _, _)
\* CarlaSyncMode._retrieve_data on the items that arrive within the timeout:
\* items of another frame are dropped; empty is queue.Empty
_retrieve_data(queue, frame, dropped) ==
    IF queue = <<>>
    THEN [empty |-> TRUE, item |-> -1, rest |-> <<>>, dropped |-> dropped]
    ELSE IF Head(queue) = frame
         THEN [empty |-> FALSE, item |-> Head(queue), rest |-> Tail(queue),
               dropped |-> dropped]
         ELSE _retrieve_data(Tail(queue), frame, dropped + 1)

RECURSIVE RetrieveAll(_, _, _, _)
\* data = [self._retrieve_data(q, timeout) for q in self._queues], from queue i
RetrieveAll(queues, frame, i, acc) ==
    IF i > Len(queues) THEN acc
    ELSE LET r == _retrieve_data(queues[i], frame, 0)
         IN  IF r.empty
             THEN [acc EXCEPT !.empty = TRUE,
                              !.queues = [acc.queues EXCEPT ![i] = r.rest],
                              !.dropped = acc.dropped + r.dropped]
             ELSE RetrieveAll(queues, frame, i + 1,
                              [acc EXCEPT !.data = Append(acc.data, r.item),
                                          !.queues = [acc.queues EXCEPT ![i] = r.rest],
                                          !.dropped = acc.dropped + r.dropped])

\* where main goes after sync_mode.tick: a timeout is caught as if it were data
TickPcSwallow(empty) == "obstacle"

\* where main goes after sync_mode.tick (line 453): queue.Empty is not caught
\* inside the loop and leaves the try block for the finally clause
TickPc(empty) == IF empty THEN "cleanup" ELSE "obstacle"

-----------------------------------------------------------------------------
(* KeyboardControl.parse_events *)

Keys == {"K_m", "K_o", "K_l", "K_r", "K_s", "K_c", "K_p", "K_a", "K_d", "K_q",
         "K_t", "K_u"}

\* pygame.QUIT and the KEYUP of the quit shortcut
QuitEvents == {"QUIT", "K_ESCAPE"}

Events == Keys \cup QuitEvents

\* the KEYDOWN branch of parse_events for one key (lines 159-200)
KeyDown(c, key) ==
    CASE key = "K_m" -> [c EXCEPT !.autopilot_enabled = FALSE]
      [] key = "K_o" -> [c EXCEPT !.autopilot_enabled = TRUE]
      [] key = "K_l" -> [c EXCEPT !.left_lane_change_activated = 1,
                                  !.lane_change_second_half = -1]
      [] key = "K_r" -> [c EXCEPT !.right_lane_change_activated = 1,
                                  !.lane_change_second_half = -1]
      [] key = "K_s" -> [c EXCEPT !.lane_change_second_half = 1]
      [] key = "K_c" -> [c EXCEPT !.start_data_collection = TRUE]
      [] key = "K_p" -> [c EXCEPT !.start_data_collection = FALSE]
      [] key = "K_a" -> [c EXCEPT !.force_left_lane_change = TRUE]
      [] key = "K_d" -> [c EXCEPT !.force_right_lane_change = TRUE]
      [] key = "K_q" -> [c EXCEPT !.left_lane_change_activated = 0,
                                  !.right_lane_change_activated = 0,
                                  !.lane_change_second_half = 0]
      [] key = "K_t" -> [c EXCEPT !.spawn_static_object = TRUE]
      [] key = "K_u" -> [c EXCEPT !.destroy_static_object = TRUE]
      [] OTHER -> c

RECURSIVE ParseBatch(_, _)
\* for event in pygame.event.get(): ... ; quit is "return True"
ParseBatch(c, batch) ==
    IF batch = <<>> THEN [controller |-> c, quit |-> FALSE]
    ELSE IF Head(batch) \in QuitEvents
         THEN [controller |-> c, quit |-> TRUE]
         ELSE ParseBatch(KeyDown(c, Head(batch)), Tail(batch))

RECURSIVE LastKey(_, _)
\* the last KEYDOWN event the loop of parse_events handled in the batch
LastKey(batch, last) ==
    IF batch = <<>> \/ Head(batch) \in QuitEvents THEN last
    ELSE LastKey(Tail(batch), Head(batch))

Batches == UNION {[1..n -> Events] : n \in 0..MaxEvents}

CountIn(batch, set) == Cardinality({i \in 1..Len(batch) : batch[i] \in set})

\* steering the arrow keys can produce (_parse_vehicle_keys)
KeyboardSteers == {[num |-> 7, den |-> 10]}

\* steering the navigation agent can produce (agent.run_step)
AgentSteers == {[num |-> -1, den |-> 10]}

-----------------------------------------------------------------------------
(* main *)

Init == InitCommon /\ pc = "spawn"

Raise(e) == error' = e /\ pc' = "cleanup"

\* lines 404-441: the three actors are spawned and appended in order; a failed
\* spawn raises with the actors appended so far
SpawnActors ==
    /\ pc = "spawn"
    /\ \E spawned \in 0..3 :
          /\ actor_list' = SubSeq(<<Vehicle, CameraRgb, CameraTopView>>, 1, spawned)
          /\ IF spawned < 3
             THEN Raise("RuntimeError") /\ csv' = csv
             ELSE /\ pc' = "enter"
                  /\ csv' = [csv EXCEPT !.header = Fields]
                  /\ error' = error
    /\ controller' = ControllerInit
    /\ polyline_controller' = FALSE
    /\ UNCHANGED <<destroy_calls, obstacle, sync_mode, data, pl, lc_waypoints_count,
                   control_values, vehicle_control, images, iter, route, arcs>>

\* CarlaSyncMode.__enter__: the queues are registered; a queue may already hold
\* items of frames before the first synchronous tick
SyncEnter ==
    /\ pc = "enter"
    /\ \E stale \in [1..NumQueues -> 0..MaxStale] :
          sync_mode' = [sync_mode EXCEPT
              !.queues = [q \in 1..NumQueues |-> [k \in 1..stale[q] |-> sync_mode.frame]]]
    /\ pc' = "loop"
    /\ UNCHANGED <<error, actor_list, destroy_calls, obstacle, data, controller,
                   polyline_controller, pl, lc_waypoints_count, control_values,
                   vehicle_control, csv, images, iter, route, arcs>>

\* line 446: controller.parse_events(clock) on one batch of events
ParseEvents ==
    /\ pc = "loop"
    /\ \E batch \in Batches, steer \in KeyboardSteers :
          LET r == ParseBatch(controller, batch)
              nkeys == CountIn(batch, Keys)
          IN  /\ iter.keys + nkeys <= MaxKeys
              /\ iter.obstacles + CountIn(batch, {"K_t"}) <= MaxObstacles
              /\ iter.started >= MaxFrames => r.quit
              /\ controller' = r.controller
              /\ iter' = [iter EXCEPT !.keys = @ + nkeys,
                                      !.last_key = LastKey(batch, "none"),
                                      !.obstacles = @ + CountIn(batch, {"K_t"}),
                                      !.started = IF r.quit THEN @ ELSE @ + 1]
              /\ pc' = IF r.quit THEN "cleanup" ELSE "tick"
              /\ IF ~r.quit /\ ~r.controller.autopilot_enabled
                 THEN vehicle_control' = [src |-> "keyboard", steer |-> steer,
                                          frame |-> iter.started + 1]
                 ELSE vehicle_control' = vehicle_control
    /\ UNCHANGED <<error, actor_list, destroy_calls, obstacle, sync_mode, data,
                   polyline_controller, pl, lc_waypoints_count, control_values,
                   csv, images, route, arcs>>

\* line 453 with CarlaSyncMode.tick: the world ticks once, each queue receives
\* the item of the new frame or nothing within the timeout, and every queue is
\* read in turn
SyncTick ==
    /\ pc = "tick"
    /\ \E arrive \in [1..NumQueues -> BOOLEAN] :
          LET frame == sync_mode.frame + 1
              filled == [q \in 1..NumQueues |->
                            IF arrive[q] THEN Append(sync_mode.queues[q], frame)
                                         ELSE sync_mode.queues[q]]
              r == RetrieveAll(filled, frame, 1,
                               [empty |-> FALSE, data |-> <<>>, queues |-> filled,
                                dropped |-> 0])
              asserted == \A i \in 1..Len(r.data) : r.data[i] = frame
          IN  /\ sync_mode' = [frame |-> frame, queues |-> r.queues,
                               ticks |-> sync_mode.ticks + 1,
                               timeouts |-> sync_mode.timeouts + (IF r.empty THEN 1 ELSE 0),
                               discarded |-> r.dropped]
              /\ IF r.empty
                 THEN /\ error' = "Empty"
                      /\ pc' = TickPc(TRUE)
                      /\ data' = data
                 ELSE IF ~asserted
                      THEN Raise("AssertionError") /\ data' = data
                      ELSE /\ data' = r.data
                           /\ pc' = TickPc(FALSE)
                           /\ error' = error
    /\ UNCHANGED <<actor_list, destroy_calls, obstacle, controller,
                   polyline_controller, pl, lc_waypoints_count, control_values,
                   vehicle_control, csv, images, iter, route, arcs>>

\* lines 472-497: spawn and destroy of the static obstacle
ObstacleStep ==
    /\ pc = "obstacle"
    /\ \E spawn_ok \in BOOLEAN :
          LET spawning == controller.spawn_static_object
              spawned  == Obstacle(iter.obstacles)
              raised   == spawning /\ ~spawn_ok
              obstacle1 == IF spawning /\ spawn_ok THEN spawned ELSE obstacle
              destroying == ~raised /\ controller.destroy_static_object
          IN  /\ ~spawning => spawn_ok
              /\ actor_list' = IF spawning /\ spawn_ok
                               THEN Append(actor_list, spawned) ELSE actor_list
              /\ controller' = [controller EXCEPT
                     !.spawn_static_object = FALSE,
                     !.destroy_static_object = IF raised THEN @ ELSE FALSE]
              /\ IF raised
                 THEN /\ Raise("RuntimeError")
                      /\ UNCHANGED <<obstacle, destroy_calls>>
                 ELSE IF destroying /\ obstacle1 = None
                      THEN /\ Raise("AttributeError")
                           /\ obstacle' = obstacle1
                           /\ destroy_calls' = destroy_calls
                      ELSE /\ obstacle' = IF destroying THEN None ELSE obstacle1
                           /\ destroy_calls' =
                                 IF destroying
                                 THEN [destroy_calls EXCEPT ![obstacle1] = @ + 1]
                                 ELSE destroy_calls
                           /\ pc' = "lane"
                           /\ error' = error
    /\ UNCHANGED <<sync_mode, data, polyline_controller, pl, lc_waypoints_count,
                   control_values, vehicle_control, csv, images, iter, route, arcs>>

\* the polyline state main holds: pl, lc_waypoints_count, polyline_controller
PolyState == [pl |-> pl, count |-> lc_waypoints_count, on |-> polyline_controller,
              route |-> route, err |-> "none"]

\* a trigger keeps the polyline of a lane change that is still in progress
LaneChangeKeep(st, forced, lane_ok, shape) ==
    IF ~forced \/ st.err # "none" THEN st
    ELSE IF ~lane_ok THEN [st EXCEPT !.err = "AttributeError"]
    ELSE IF st.on THEN st
    ELSE [pl |-> PlBuild(shape.loc1, shape.loc2, shape.loc3,
                         Waypoints(shape, NumWps), MainDistance),
          count |-> 3 + NumWps, on |-> TRUE, route |-> Route(shape, NumWps),
          err |-> "none"]

\* lines 512-542 (left) and 544-573 (right): a forced lane change looks up the
\* waypoints (AttributeError when get_left_lane/get_right_lane returns None)
\* and rebuilds the polyline from the vehicle's location
LaneChange(st, forced, lane_ok, shape) ==
    IF ~forced \/ st.err # "none" THEN st
    ELSE IF ~lane_ok THEN [st EXCEPT !.err = "AttributeError"]
    ELSE IF PlInitRaises(Waypoints(shape, NumWps))
         THEN [st EXCEPT !.count = 3 + NumWps, !.err = "IndexError"]
         ELSE [pl |-> PlBuild(shape.loc1, shape.loc2, shape.loc3,
                              Waypoints(shape, NumWps), MainDistance),
               count |-> 3 + NumWps, on |-> TRUE, route |-> Route(shape, NumWps),
               err |-> "none"]

LaneChangeStep ==
    /\ pc = "lane"
    /\ \E left_ok \in BOOLEAN, right_ok \in BOOLEAN, shape \in MainShapes :
          LET left  == LaneChange(PolyState, controller.force_left_lane_change,
                                  left_ok, shape)
              right == LaneChange(left, controller.force_right_lane_change,
                                  right_ok, shape)
          IN  /\ ~controller.force_left_lane_change => left_ok
              /\ (~controller.force_right_lane_change \/ left.err # "none") => right_ok
              /\ ~(controller.force_left_lane_change \/ controller.force_right_lane_change)
                    => shape = CHOOSE sh \in MainShapes : TRUE
              /\ controller' = [controller EXCEPT
                     !.force_left_lane_change = FALSE,
                     !.force_right_lane_change = IF left.err # "none" THEN @ ELSE FALSE]
              /\ pl' = right.pl
              /\ lc_waypoints_count' = right.count
              /\ polyline_controller' = right.on
              /\ route' = right.route
              /\ IF right.err # "none"
                 THEN Raise(right.err)
                 ELSE pc' = "poly" /\ error' = error
    /\ UNCHANGED <<actor_list, destroy_calls, obstacle, sync_mode, data,
                   control_values, vehicle_control, csv, images, iter, arcs>>

\* the polyline step runs whenever polyline_controller is set
BranchNoAutopilot(autopilot_enabled, polyline_on) ==
    IF polyline_on THEN "polyline" ELSE IF autopilot_enabled THEN "agent" ELSE "manual"

\* lines 576-577 and 648: which branch of the control step runs
Branch(autopilot_enabled, polyline_on) ==
    IF autopilot_enabled
    THEN IF polyline_on THEN "polyline" ELSE "agent"
    ELSE "manual"

\* lines 576-652: the polyline step or the agent's own control
PolylineStep ==
    /\ pc = "poly"
    /\ LET branch == Branch(controller.autopilot_enabled, polyline_controller)
       IN  \/ /\ branch = "polyline"
              /\ \E front \in MainLocs(route) :
                    LET step == PolyStep(pl, front, lc_waypoints_count)
                        control == [src |-> "polyline", steer |-> step.steering,
                                    frame |-> iter.started]
                    IN  /\ pl' = [pl EXCEPT !.crossed_pointer = step.crossed_pointer,
                                            !.nxt_pointer = step.nxt_pointer]
                        /\ arcs' = step.arcs
                        /\ polyline_controller' = ~step.finished
                        /\ IF step.err # "none"
                           THEN /\ Raise(step.err)
                                /\ UNCHANGED <<csv, vehicle_control, control_values>>
                           ELSE /\ vehicle_control' = control
                                /\ control_values' = control
                                /\ csv' = [csv EXCEPT !.rows = @ + 1, !.keys = RowKeys,
                                                      !.row = Row(step)]
                                /\ pc' = "save"
                                /\ error' = error
           \/ /\ branch = "agent"
              /\ \E steer \in AgentSteers :
                    LET control == [src |-> "agent", steer |-> steer,
                                    frame |-> iter.started]
                    IN  /\ vehicle_control' = control
                        /\ control_values' = control
              /\ pc' = "save"
              /\ UNCHANGED <<pl, arcs, polyline_controller, csv, error>>
           \/ /\ branch = "manual"
              /\ pc' = "save"
              /\ UNCHANGED <<pl, arcs, polyline_controller, csv, error,
                             vehicle_control, control_values>>
    /\ UNCHANGED <<actor_list, destroy_calls, obstacle, sync_mode, data, controller,
                   lc_waypoints_count, images, iter, route>>

\* lines 675-685: the frame is handed to the image saver with control_values.steer
\* and the lane-change flags; control_values is read unbound before its first
\* assignment (UnboundLocalError)
SaveStep ==
    /\ pc = "save"
    /\ IF controller.start_data_collection
       THEN IF control_values = Unbound
            THEN Raise("UnboundLocalError") /\ UNCHANGED <<images, iter>>
            ELSE /\ images' = [count |-> images.count + 1,
                               last |-> [control |-> control_values,
                                         left |-> controller.left_lane_change_activated,
                                         right |-> controller.right_lane_change_activated,
                                         second_half |-> controller.lane_change_second_half,
                                         frame |-> sync_mode.frame]]
                 /\ iter' = [iter EXCEPT !.completed = @ + 1]
                 /\ pc' = "loop"
                 /\ error' = error
       ELSE /\ iter' = [iter EXCEPT !.completed = @ + 1]
            /\ pc' = "loop"
            /\ UNCHANGED <<images, error>>
    /\ UNCHANGED <<actor_list, destroy_calls, obstacle, sync_mode, data, controller,
                   polyline_controller, pl, lc_waypoints_count, control_values,
                   vehicle_control, csv, route, arcs>>

\* the obstacles are left out of the clean-up
DestroyFirstThree(list, calls) ==
    [a \in Actors |->
        calls[a] + Cardinality({i \in 1..Len(list) : i <= 3 /\ list[i] = a})]

\* lines 689-690: for actor in actor_list: actor.destroy()
DestroyAll(list, calls) ==
    [a \in Actors |-> calls[a] + Cardinality({i \in 1..Len(list) : list[i] = a})]

\* lines 687-693: the finally clause
Cleanup ==
    /\ pc = "cleanup"
    /\ destroy_calls' = DestroyAll(actor_list, destroy_calls)
    /\ pc' = "done"
    /\ UNCHANGED <<error, actor_list, obstacle, sync_mode, data, controller,
                   polyline_controller, pl, lc_waypoints_count, control_values,
                   vehicle_control, csv, images, iter, route, arcs>>

Next ==
    \/ SpawnActors
    \/ SyncEnter
    \/ ParseEvents
    \/ SyncTick
    \/ ObstacleStep
    \/ LaneChangeStep
    \/ PolylineStep
    \/ SaveStep
    \/ Cleanup

Spec == Init /\ [][Next]_vars

-----------------------------------------------------------------------------
(* Properties of the polyline follower (SpecPl) *)

\* c lies on the closed segment from a to b
OnSegment(c, a, b) ==
    /\ (b.x - a.x) * (c.y - a.y) = (b.y - a.y) * (c.x - a.x)
    /\ (c.x - a.x) * (c.x - b.x) <= 0
    /\ (c.y - a.y) * (c.y - b.y) <= 0

\* a, b and c lie on one line
Colinear(a, b, c) == (b.x - a.x) * (c.y - a.y) = (b.y - a.y) * (c.x - a.x)

NonDecreasing(seq) == \A i \in 1..(Len(seq) - 1) : seq[i] <= seq[i + 1]

\* the frame wrote a row with the tracked point on the segment it has crossed into
RowOnSegment ==
    /\ csv.rows > 0
    /\ csv.row.crossed_pointer + 1 < Len(pl.locs_list)
    /\ OnSegment(csv.row.cu_loc, At(pl.locs_list, csv.row.crossed_pointer),
                 At(pl.locs_list, csv.row.crossed_pointer + 1))

\* every polyline point from the crossed one to the next one has the local y
\* of the tracked point: the look-ahead runs parallel to the local x-axis
LevelAhead ==
    \A i \in csv.row.crossed_pointer..csv.row.nxt_pointer :
        At(pl.locs_list, i).y = csv.row.cu_loc.y

\* C4: for a fixed location and crossed pointer, compute_polyline_distance
\* does not decrease when nxt grows by one (cr < nxt < len - 1), and the arc
\* lengths the look-ahead loop evaluates within one frame never decrease
C4_ArcMonotone ==
    /\ \A front \in VehLocs(route) :
         \A cr \in 0..(Len(pl.locs_list) - 3) :
           \A nxt \in (cr + 1)..(Len(pl.locs_list) - 2) :
             LET loc == transform(pl.initial_position, pl.theta, front)
             IN  compute_polyline_distance(pl.locs_list, loc, cr, nxt + 1)
                 >= compute_polyline_distance(pl.locs_list, loc, cr, nxt)
    /\ NonDecreasing(arcs)

\* a frame whose look-ahead loop advanced nxt_pointer twice over growing arcs
C4_Witness == Len(arcs) >= 3 /\ arcs[1] < arcs[Len(arcs)]

C6_LocalFrame ==
    pl # NoPl =>
      /\ transform(pl.initial_position, pl.theta, route.loc1) = Loc(0, 0)
      /\ At(pl.locs_list, 0) = Loc(0, 0)
      /\ At(pl.locs_list, 1).y = 0
      /\ At(pl.locs_list, 1).x > 0
      /\ At(pl.locs_list, 1).x = pl.theta.len * compute_distance(route.loc1, route.loc2)
      /\ Colinear(route.loc1, route.loc2, route.loc3) => At(pl.locs_list, 2).y = 0

\* a frame built with theta = pi from three colinear points away from the origin
C6_Witness ==
    /\ pl # NoPl
    /\ pl.theta.s = 0 /\ pl.theta.c < 0
    /\ route.loc1 # Loc(0, 0)
    /\ Colinear(route.loc1, route.loc2, route.loc3)

\* C7: from (0,0), (10,0), (10,10) alone the follower is constructed, and a
\* vehicle at (5,0) gets local y = 0 and dy = 0 with crossed_pointer = 0 and
\* nxt_pointer = 1
C7_ThreePointsAlone ==
    (route.loc1 = Loc(0, 0) /\ route.loc2 = Loc(10, 0) /\ route.loc3 = Loc(10, 10)
     /\ route.wps = <<>>)
    => /\ error = "none"
       /\ pl # NoPl
       /\ (csv.rows > 0 /\ csv.row.cu_loc = transform(pl.initial_position, pl.theta, Loc(5, 0)))
          => /\ csv.row.cu_loc.y = 0
             /\ csv.row.dy.num = 0
             /\ csv.row.crossed_pointer = 0
             /\ csv.row.nxt_pointer = 1

-----------------------------------------------------------------------------
(* Properties of main (Spec) *)

\* C1: however main ends (quit or an exception inside the try block), the
\* finally clause runs and every actor appended to actor_list has received
\* destroy() when the process is done
C1_CleanupDestroysAll ==
    /\ error # "none" => pc \in {"cleanup", "done"}
    /\ pc = "done" =>
          \A i \in 1..Len(actor_list) : destroy_calls[actor_list[i]] >= 1

\* a run ended by an exception while the ego vehicle, both cameras and a live
\* obstacle were in actor_list
C1_Witness ==
    /\ pc = "done"
    /\ error # "none"
    /\ Len(actor_list) = 4
    /\ obstacle # None

\* C2: a queue that delivers nothing within the timeout ends tick with
\* queue.Empty after one world tick and one timed-out read, and the main loop
\* runs no further iteration: the run goes through the clean-up
C2_TimeoutIsFatal ==
    [][ /\ (error = "none" /\ error' = "Empty")
           => /\ pc = "tick" /\ pc' = "cleanup"
              /\ sync_mode'.ticks = sync_mode.ticks + 1
              /\ sync_mode'.timeouts = 1
              /\ iter' = iter
        /\ error = "Empty"
           => /\ pc = "cleanup" /\ pc' = "done"
              /\ sync_mode' = sync_mode
              /\ iter' = iter ]_vars

\* a run ended by a timeout in its second iteration
C2_Witness ==
    /\ pc = "done"
    /\ error = "Empty"
    /\ sync_mode.ticks = 2
    /\ iter.completed = 1

\* C3: a successful tick has advanced the world once and returned one item
\* per queue, each of the frame of that tick; items of other frames were
\* dequeued and dropped, and the assertion of tick never fails
C3_TickFrames ==
    /\ error # "AssertionError"
    /\ pc \in {"obstacle", "lane", "poly", "save"} =>
          /\ Len(data) = NumQueues
          /\ \A i \in 1..Len(data) : data[i] = sync_mode.frame
          /\ sync_mode.ticks = iter.started
          /\ sync_mode.frame = sync_mode.ticks
          /\ \A q \in 1..NumQueues :
                \A k \in 1..Len(sync_mode.queues[q]) :
                    sync_mode.queues[q][k] = sync_mode.frame

\* a successful tick that dropped an item of an earlier frame
C3_Witness == pc = "obstacle" /\ sync_mode.discarded > 0

\* C8 as stated: every completed iteration has appended one row
C8_RowEveryFrame == pc = "loop" => csv.rows = iter.completed

\* C8 amended: an iteration appends one row exactly when it reaches the control
\* step with autopilot enabled and polyline_controller True (and the step does
\* not raise), no other step writes a row, and every row has the 10 header
\* columns with steering = -0.02 * dy
C8_RowPerPolylineFrame ==
    [][ /\ (pc = "poly" /\ pc' = "save")
           => csv'.rows = csv.rows
                 + (IF controller.autopilot_enabled /\ polyline_controller THEN 1 ELSE 0)
        /\ pc # "poly" => csv'.rows = csv.rows
        /\ csv'.rows > 0
           => /\ csv'.keys = csv'.header
              /\ Len(csv'.keys) = 10
              /\ csv'.row.steering.num * 100 * csv'.row.dy.den
                    = - 2 * csv'.row.dy.num * csv'.row.steering.den ]_vars

\* a row with a non-zero dy, and more completed iterations than rows
C8_Witness ==
    /\ csv.rows >= 1
    /\ iter.completed > csv.rows
    /\ csv.row.dy.num # 0

Triggered == controller.force_left_lane_change \/ controller.force_right_lane_change

\* C9 as stated: every trigger that reaches the lane-change step is cleared,
\* rebuilds the polyline with crossed_pointer = 0 and nxt_pointer = 1 and sets
\* polyline_controller
C9_TriggerAlwaysRebuilds ==
    [][ (pc = "lane" /\ Triggered)
        => /\ ~controller'.force_left_lane_change
           /\ ~controller'.force_right_lane_change
           /\ pl' # NoPl
           /\ pl'.crossed_pointer = 0
           /\ pl'.nxt_pointer = 1
           /\ polyline_controller' ]_vars

\* C9 amended: a trigger that reaches the lane-change step is cleared there;
\* when the waypoint lookups succeed the polyline is rebuilt from the vehicle's
\* location with crossed_pointer = 0 and nxt_pointer = 1 and polyline_controller
\* becomes True, also during a lane change in progress; when a lookup fails
\* the step raises and the run goes to the clean-up
C9_TriggerRebuildsWhenLaneFound ==
    [][ (pc = "lane" /\ Triggered)
        => IF error' = "none"
           THEN /\ ~controller'.force_left_lane_change
                /\ ~controller'.force_right_lane_change
                /\ pl' # NoPl
                /\ pl'.initial_position = route'.loc1
                /\ pl'.crossed_pointer = 0
                /\ pl'.nxt_pointer = 1
                /\ polyline_controller'
                /\ pc' = "poly"
           ELSE /\ pc' = "cleanup"
                /\ (controller.force_left_lane_change
                    => ~controller'.force_left_lane_change) ]_vars

\* a polyline rebuilt while the previous lane change had advanced its crossed
\* pointer and had not reached its last point
C9_Witness ==
    /\ pc = "poly"
    /\ polyline_controller
    /\ pl # NoPl
    /\ pl.crossed_pointer = 0 /\ pl.nxt_pointer = 1
    /\ csv.rows > 0
    /\ csv.row.crossed_pointer > 0
    /\ csv.row.nxt_pointer < lc_waypoints_count - 1

\* C10: an iteration with start_data_collection hands exactly one frame to the
\* image saver, tagged with the steering of the control the vehicle has in that
\* iteration and the lane-change flags; an iteration without it hands none
C10_FrameTaggedWithCurrentControl ==
    [][ pc = "save"
        => IF controller.start_data_collection
           THEN /\ images'.count = images.count + 1
                /\ images'.last.control.steer = vehicle_control.steer
                /\ images'.last.control.frame = iter.started
                /\ images'.last.left = controller.left_lane_change_activated
                /\ images'.last.right = controller.right_lane_change_activated
                /\ images'.last.second_half = controller.lane_change_second_half
           ELSE images' = images ]_vars

\* C11: once K_o is the last key handled by parse_events, autopilot is enabled,
\* the three lane-change flags are 0 and polyline_controller is off
C11_KoDeactivatesLaneChange ==
    (pc = "tick" /\ iter.last_key = "K_o")
    => /\ controller.autopilot_enabled
       /\ controller.left_lane_change_activated = 0
       /\ controller.right_lane_change_activated = 0
       /\ controller.lane_change_second_half = 0
       /\ ~polyline_controller

\* C12: polyline_controller, once set, is cleared only by a control step with
\* autopilot enabled in which nxt_pointer is the last index and the arc length
\* to that point is within pl.distance, and such a step clears it; a control
\* step with autopilot enabled applies steer = -0.02 * dy when
\* polyline_controller is True at the step, and the agent's own control
\* otherwise
C12_OverrideLifecycle ==
    [][ /\ (polyline_controller /\ ~polyline_controller')
           => /\ pc = "poly"
              /\ controller.autopilot_enabled
              /\ pl'.nxt_pointer = lc_waypoints_count - 1
              /\ arcs' # <<>>
              /\ arcs'[Len(arcs')] <= PlDistance(pl)
        /\ (pc = "poly" /\ controller.autopilot_enabled /\ polyline_controller
            /\ pl'.nxt_pointer = lc_waypoints_count - 1
            /\ arcs' # <<>> /\ arcs'[Len(arcs')] <= PlDistance(pl))
           => ~polyline_controller'
        /\ (pc = "poly" /\ pc' = "save" /\ controller.autopilot_enabled
            /\ polyline_controller)
           => /\ vehicle_control'.src = "polyline"
              /\ vehicle_control'.frame = iter.started
              /\ vehicle_control'.steer.num * 100 * csv'.row.dy.den
                    = - 2 * csv'.row.dy.num * vehicle_control'.steer.den
        /\ (pc = "poly" /\ pc' = "save" /\ controller.autopilot_enabled
            /\ ~polyline_controller)
           => /\ vehicle_control'.src = "agent"
              /\ vehicle_control'.frame = iter.started
              /\ vehicle_control'.steer \in AgentSteers ]_vars

\* a lane change that held the override for three frames and ended at the
\* last point of the polyline
C12_Witness ==
    /\ pc = "save"
    /\ ~polyline_controller
    /\ pl # NoPl
    /\ pl.nxt_pointer = lc_waypoints_count - 1
    /\ vehicle_control.src = "polyline"
    /\ csv.rows = 3

-----------------------------------------------------------------------------
(* Properties of the pointers of the polyline follower (SpecPl) *)

\* evaluations of the loop condition of the last frame that entered the body
LoopBodies(dist) == Cardinality({i \in 1..Len(arcs) : arcs[i] <= dist})

\* C13: in every frame the look-ahead loop ends after at most
\* lc_waypoints_count - 1 iterations, each of which increments nxt_pointer or
\* breaks; nxt_pointer never decreases and never exceeds lc_waypoints_count - 1
C13_LookAheadTerminates ==
    [][ pc = "pl_frame"
        => /\ pl'.nxt_pointer >= pl.nxt_pointer
           /\ pl'.nxt_pointer <= lc_waypoints_count - 1
           /\ Len(arcs') <= lc_waypoints_count - 1
           /\ LoopBodies(PlDistance(pl))' <= lc_waypoints_count - 1
           /\ LoopBodies(PlDistance(pl))'
                 = (pl'.nxt_pointer - pl.nxt_pointer)
                   + (IF polyline_controller /\ ~polyline_controller' THEN 1 ELSE 0) ]_vars

\* a frame whose loop advanced nxt_pointer twice and then broke at the last point
C13_Witness ==
    /\ pc = "pl_frame"
    /\ ~polyline_controller
    /\ Len(arcs) >= 3
    /\ pl.nxt_pointer = lc_waypoints_count - 1

-----------------------------------------------------------------------------
(* Manual driving *)

-----------------------------------------------------------------------------
(* The pointer invariant *)

\* C15: after the pointer updates of every frame of the polyline step,
\* 0 <= crossed_pointer < nxt_pointer <= lc_waypoints_count - 1 =
\* len(locs_list) - 1, crossed_pointer has grown by at most 1, and no access to
\* locs_list is out of bounds (no IndexError), whatever the vehicle positions
C15_PointerInvariant ==
    [][ pc = "pl_frame"
        => /\ 0 <= pl'.crossed_pointer
           /\ pl'.crossed_pointer < pl'.nxt_pointer
           /\ pl'.nxt_pointer <= lc_waypoints_count - 1
           /\ lc_waypoints_count = Len(pl.locs_list)
           /\ pl'.crossed_pointer - pl.crossed_pointer \in {0, 1}
           /\ error' # "IndexError" ]_vars

-----------------------------------------------------------------------------
(* The life cycle of the obstacle *)

\* C16: over any sequence of K_t and K_u presses followed by exit, destroy()
\* is called at most once on each spawned actor (an obstacle destroyed by K_u
\* is not destroyed again by the final clean-up), and a K_u with no obstacle
\* present does not raise
C16_DestroyAtMostOnce ==
    [][ /\ \A a \in Actors : destroy_calls'[a] <= 1
        /\ (pc = "obstacle" /\ controller.destroy_static_object)
           => error' # "AttributeError" ]_vars

====
